---------------------------- MODULE Spec2Model ----------------------------
(***************************************************************************)
(* A model of archipack_floor (src/__init__.py): the parametric floor      *)
(* generator of the Blender add-on.  The floor object keeps three buffers  *)
(* (vs, fs, ms); every property change calls update(), which calls         *)
(* update_data(): it empties the buffers and runs one layout algorithm.    *)
(*                                                                         *)
(* Lengths are exact integers counted in ticks; Unit ticks stand for one   *)
(* length unit of the add-on.  The parameter sets are chosen so that every *)
(* product and quotient the code computes (percentages, the 0.99 factor,   *)
(* halves) is an exact integer, so the model computes with the reals the   *)
(* Python floats approximate.  random.uniform(a, b) is a choice among the  *)
(* two ends of the range and its middle.                                   *)
(*                                                                         *)
(* A run is a sequence of steps: one step per iteration of a sweep loop.   *)
(* pc is the position of update_data(), loc holds the local variables of   *)
(* the running layout function.                                            *)
(***************************************************************************)
EXTENDS Integers, Sequences, FiniteSets

VARIABLES
    params,   \* the property values of the floor object
    vs,       \* archipack_floor.vs: vertices, <<x, y, z>>
    fs,       \* archipack_floor.fs: faces, four 0-based indices into vs
    ms,       \* archipack_floor.ms: one material id per face
    pc,       \* position of update_data()
    loc,      \* local variables of the running layout function
    calls,    \* the layout functions update_data() has called in this run
    allmin,   \* every uniform() of this run returned the minimum of its range
    prev      \* the buffers the previous run left, when it had the same params

vars == <<params, vs, fs, ms, pc, loc, calls, allmin, prev>>

---------------------------------------------------------------------------
(* Bounds of the model. *)

\* footprint width and length range over 1..MaxDim units
MaxDim == 3
\* board and tile width and length range over 1..MaxUnitDim units
MaxUnitDim == 2
\* max_boards ranges over 1..MaxMaxBoards
MaxMaxBoards == 2
\* boards_in_group ranges over 1..MaxBoardsInGroup
MaxBoardsInGroup == 2

\* ticks per length unit: a multiple of 200, which keeps
\* n * (percent / 100) * 0.99 exact for percent in {50, 100}
Unit == 2 * 100
\* the non-zero spacing of the model, a tenth of a unit
Gap == Unit \div 10
\* a spacing wider than a tile
BigGap == 2 * Unit
\* a board a hundred times wider than the unit: 1 % of it is half a unit
Wide == 50 * Unit

\* the outcomes of random.uniform the model distinguishes
Draws == {"min", "mid", "max"}

---------------------------------------------------------------------------
(* Pure helpers. *)

\* random.uniform(a, b) for the outcome r
uniform(a, b, r) ==
    CASE r = "min" -> a
      [] r = "max" -> b
      [] OTHER -> (a + b) \div 2

\* variance without the 0.99 factor (a faulty variant of variance)
variance_full(nominal, percent) == (nominal * percent) \div 100

\* v = nominal * (percent / 100) * 0.99, the half-width of a varied range
variance(nominal, percent) == (nominal * percent * 99) \div 10000

\* cube_vs with the far corner at (w, l), not at (x + w, y + l) (a faulty variant of cube_vs)
cube_vs_far(x, y, z, w, l, t) ==
    << <<x, y, z>>, <<x, y, z + t>>, <<w, y, z>>, <<w, y, z + t>>,
       <<x, l, z>>, <<x, l, z + t>>, <<w, l, z>>, <<w, l, z + t>> >>

\* the eight vertices add_cube appends
cube_vs(x, y, z, w, l, t) ==
    << <<x, y, z>>, <<x, y, z + t>>, <<x + w, y, z>>, <<x + w, y, z + t>>,
       <<x, y + l, z>>, <<x, y + l, z + t>>, <<x + w, y + l, z>>,
       <<x + w, y + l, z + t>> >>

\* cube_fs with p read after the vertices were appended (a faulty variant of
\* cube_fs)
cube_fs_late(p) ==
    LET q == p + 8
    IN  << <<q, q + 2, q + 3, q + 1>>, <<q + 2, q + 6, q + 7, q + 3>>,
           <<q + 1, q + 3, q + 7, q + 5>>, <<q + 6, q + 4, q + 5, q + 7>>,
           <<q, q + 1, q + 5, q + 4>>, <<q, q + 4, q + 6, q + 2>> >>

\* the six faces add_cube appends, p the number of vertices before the call
cube_fs(p) ==
    << <<p, p + 2, p + 3, p + 1>>, <<p + 2, p + 6, p + 7, p + 3>>,
       <<p + 1, p + 3, p + 7, p + 5>>, <<p + 6, p + 4, p + 5, p + 7>>,
       <<p, p + 1, p + 5, p + 4>>, <<p, p + 4, p + 6, p + 2>> >>

\* add_cube without the two clipping tests (a faulty variant of add_cube)
add_cube_noclip(m, p, x, y, z, w, l, t, clip, mat_id) ==
    IF clip /\ (x >= p.width \/ y >= p.length)
    THEN m
    ELSE [m EXCEPT !.vs = @ \o cube_vs(x, y, z, w, l, t),
                   !.fs = @ \o cube_fs(Len(m.vs)),
                   !.ms = @ \o [i \in 1..6 |-> mat_id]]

\* add_cube on the buffers of the machine m, p the params
add_cube(m, p, x, y, z, w, l, t, clip, mat_id) ==
    IF clip /\ (x >= p.width \/ y >= p.length)
    THEN m
    ELSE LET w2 == IF clip /\ x + w > p.width THEN p.width - x ELSE w
             l2 == IF clip /\ y + l > p.length THEN p.length - y ELSE l
         IN  [m EXCEPT !.vs = @ \o cube_vs(x, y, z, w2, l2, t),
                       !.fs = @ \o cube_fs(Len(m.vs)),
                       !.ms = @ \o [i \in 1..6 |-> mat_id]]

\* the local variables before a layout function runs and after it returns
NoLoc ==
    [cur_x |-> 0, cur_y |-> 0, off |-> FALSE, tl2 |-> 0, row |-> 0,
     pre_y |-> 0, step_back |-> FALSE, bw2 |-> 0, bl2 |-> 0, counter |-> 0,
     start_orient_length |-> FALSE, orient_length |-> FALSE, start_x |-> 0,
     i |-> 0]

\* the layout function returns
return(m) == [m EXCEPT !.pc = "done", !.loc = NoLoc]

---------------------------------------------------------------------------
(* wood_regular *)

\* the prologue of wood_regular: cur_x = 0.0
wood_regular(m) ==
    [m EXCEPT !.pc = "wood_regular_x", !.loc = NoLoc,
              !.calls = Append(@, "wood_regular")]

\* one pass of `while cur_x < self.width` up to the inner loop; r is the
\* outcome of the uniform() that varies the width
wood_regular_x(m, p, r) ==
    IF m.loc.cur_x < p.width
    THEN LET bw  == p.board_width
             v   == variance(bw, p.width_variance)
             bw1 == IF p.vary_width THEN uniform(bw - v, bw + v, r) ELSE bw
             bw2 == IF bw1 + m.loc.cur_x > p.width
                    THEN p.width - m.loc.cur_x ELSE bw1
         IN  [m EXCEPT !.pc = "wood_regular_y",
                       !.loc.bw2 = bw2, !.loc.cur_y = 0, !.loc.counter = 1]
    ELSE return(m)

\* the least error a float result carries, in the model's units
Ulp == 1

\* the errors `self.length - cur_y` (line 390) can carry.  cur_y and length
\* are Python floats: the difference is exact when cur_y is 0 or at least
\* length / 2, and otherwise, cur_y being a sum of uniform() results, it may
\* be rounded, so that cur_y + bl2 falls short of length by the last bit.
\* (A difference rounded up leaves the loop as the exact one does.)
rounding(m, p) ==
    IF p.vary_length /\ 0 < m.loc.cur_y /\ 2 * m.loc.cur_y < p.length
    THEN {0, Ulp} ELSE {0}

\* wood_regular_y whose max_boards test lacks `and self.vary_length` (the
\* faulty variant of wood_regular_y)
wood_regular_y_capped(m, p, rz, rl, e) ==
    IF m.loc.cur_y < p.length
    THEN LET zt  == p.thickness
             vz  == variance(zt, p.thickness_variance)
             z   == IF p.vary_thickness THEN uniform(zt - vz, zt + vz, rz) ELSE zt
             bl  == p.board_length
             vl  == variance(bl, p.length_variance)
             bl1 == IF p.vary_length THEN uniform(bl - vl, bl + vl, rl) ELSE bl
             bl2 == IF m.loc.counter >= p.max_boards
                       \/ m.loc.cur_y + bl1 > p.length
                    THEN p.length - m.loc.cur_y - e ELSE bl1
             m1  == add_cube(m, p, m.loc.cur_x, m.loc.cur_y, 0, m.loc.bw2, bl2,
                             z, TRUE, 0)
         IN  [m1 EXCEPT !.loc.bl2 = bl2,
                        !.loc.cur_y = @ + bl2 + p.length_spacing,
                        !.loc.counter = @ + 1]
    ELSE [m EXCEPT !.pc = "wood_regular_x",
                   !.loc.cur_x = @ + m.loc.bw2 + p.width_spacing]

\* one pass of `while cur_y < self.length`, or its exit and the end of the
\* outer pass (cur_x += bw2 + self.width_spacing); rz and rl are the outcomes
\* of the uniform() calls, e the error of `self.length - cur_y`
wood_regular_y(m, p, rz, rl, e) ==
    IF m.loc.cur_y < p.length
    THEN LET zt  == p.thickness
             vz  == variance(zt, p.thickness_variance)
             z   == IF p.vary_thickness THEN uniform(zt - vz, zt + vz, rz) ELSE zt
             bl  == p.board_length
             vl  == variance(bl, p.length_variance)
             bl1 == IF p.vary_length THEN uniform(bl - vl, bl + vl, rl) ELSE bl
             bl2 == IF (m.loc.counter >= p.max_boards /\ p.vary_length)
                       \/ m.loc.cur_y + bl1 > p.length
                    THEN p.length - m.loc.cur_y - e ELSE bl1
             m1  == add_cube(m, p, m.loc.cur_x, m.loc.cur_y, 0, m.loc.bw2, bl2,
                             z, TRUE, 0)
         IN  [m1 EXCEPT !.loc.bl2 = bl2,
                        !.loc.cur_y = @ + bl2 + p.length_spacing,
                        !.loc.counter = @ + 1]
    ELSE [m EXCEPT !.pc = "wood_regular_x",
                   !.loc.cur_x = @ + m.loc.bw2 + p.width_spacing]

---------------------------------------------------------------------------
(* tile_grout and tile_regular *)

\* tile_grout with the material id of the tiles (a faulty variant of tile_grout)
tile_grout_mat0(m, p) ==
    add_cube([m EXCEPT !.calls = Append(@, "tile_grout")], p, 0, 0, 0, p.width, p.length, p.thickness - p.mortar_depth,
             TRUE, 0)

\* tile_grout: one slab over the whole footprint, material id 1
tile_grout(m, p) ==
    add_cube([m EXCEPT !.calls = Append(@, "tile_grout")], p, 0, 0, 0, p.width, p.length, p.thickness - p.mortar_depth,
             TRUE, 1)

\* the prologue of tile_regular: off = False, cur_y = 0.0
tile_regular(m) ==
    [m EXCEPT !.pc = "tile_regular_y", !.loc = NoLoc,
              !.calls = Append(@, "tile_regular")]

\* one pass of `while cur_y < self.length` up to the inner loop
tile_regular_y(m, p) ==
    IF m.loc.cur_y < p.length
    THEN LET tl2 == IF m.loc.cur_y < p.length
                       /\ p.length < m.loc.cur_y + p.tile_length
                    THEN p.length - m.loc.cur_y ELSE p.tile_length
         IN  [m EXCEPT !.pc = "tile_regular_x", !.loc.cur_x = 0, !.loc.tl2 = tl2]
    ELSE return(m)

\* tile_regular_branch whose last elif tests random_offset alone (a faulty variant of tile_regular_branch)
tile_regular_branch_loose(m, p) ==
    IF m.loc.cur_x < p.width /\ p.width < m.loc.cur_x + p.tile_width
    THEN "clip"
    ELSE IF m.loc.cur_x = 0 /\ m.loc.off /\ p.offset_tiles /\ ~p.random_offset
    THEN "offset"
    ELSE IF m.loc.cur_x = 0 /\ p.random_offset
    THEN "random"
    ELSE "plain"

\* tile_regular_branch whose last elif tests `off` as the one before it does
\* (a faulty variant of tile_regular_branch)
tile_regular_branch_flagged(m, p) ==
    IF m.loc.cur_x < p.width /\ p.width < m.loc.cur_x + p.tile_width
    THEN "clip"
    ELSE IF m.loc.cur_x = 0 /\ m.loc.off /\ p.offset_tiles /\ ~p.random_offset
    THEN "offset"
    ELSE IF m.loc.cur_x = 0 /\ m.loc.off /\ p.offset_tiles /\ p.random_offset
    THEN "random"
    ELSE "plain"

\* the branch the if / elif chain of tile_regular takes for the tile at cur_x
tile_regular_branch(m, p) ==
    IF m.loc.cur_x < p.width /\ p.width < m.loc.cur_x + p.tile_width
    THEN "clip"
    ELSE IF m.loc.cur_x = 0 /\ m.loc.off /\ p.offset_tiles /\ ~p.random_offset
    THEN "offset"
    ELSE IF m.loc.cur_x = 0 /\ p.offset_tiles /\ p.random_offset
    THEN "random"
    ELSE "plain"

\* the width of the tile at cur_x, r the outcome of uniform() in the branch
\* that calls it
tile_regular_tw2(m, p, r) ==
    LET branch == tile_regular_branch(m, p)
        v == (p.tile_length * 49 * p.offset_variance) \div 10000
    IN  CASE branch = "clip" -> p.width - m.loc.cur_x
          [] branch = "offset" -> (p.tile_width * p.offset) \div 100
          [] branch = "random" ->
                uniform((p.tile_length \div 2) - v, (p.tile_length \div 2) + v, r)
          [] OTHER -> p.tile_width

\* one pass of `while cur_x < self.width`, or its exit and the end of the
\* outer pass (cur_y += tl2 + self.spacing; off = not off)
tile_regular_x(m, p, r) ==
    IF m.loc.cur_x < p.width
    THEN LET tw2 == tile_regular_tw2(m, p, r)
             m1  == add_cube(m, p, m.loc.cur_x, m.loc.cur_y, 0, tw2, m.loc.tl2,
                             p.thickness, TRUE, 0)
         IN  [m1 EXCEPT !.loc.cur_x = @ + tw2 + p.spacing]
    ELSE [m EXCEPT !.pc = "tile_regular_y",
                   !.loc.cur_y = @ + m.loc.tl2 + p.spacing,
                   !.loc.off = ~@]

---------------------------------------------------------------------------
(* tile_large_small *)

\* small tile width and length
s_tw(p) == (p.tile_width - p.spacing) \div 2
s_tl(p) == (p.tile_length - p.spacing) \div 2

\* the prologue of tile_large_small: cur_y = 0, row = 0, pre_y = cur_y
tile_large_small(m) ==
    [m EXCEPT !.pc = "tile_large_small_y", !.loc = NoLoc,
              !.calls = Append(@, "tile_large_small")]

\* one pass of `while cur_y < self.length` up to the inner loop
tile_large_small_y(m, p) ==
    IF m.loc.cur_y < p.length
    THEN [m EXCEPT !.pc = "tile_large_small_x",
                   !.loc.cur_x = IF m.loc.row = 1 THEN s_tw(p) + p.spacing ELSE 0,
                   !.loc.step_back = TRUE]
    ELSE return(m)

\* one pass of `while cur_x < self.width`, or its exit and the end of the
\* outer pass (the row-to-row advance through pre_y)
tile_large_small_x(m, p) ==
    LET cur_x == m.loc.cur_x
        cur_y == m.loc.cur_y
        th == p.thickness
        sp == p.spacing
        tw == p.tile_width
        tl == p.tile_length
    IN  IF cur_x < p.width
        THEN IF m.loc.row = 0 \/ m.loc.row = 1
             THEN LET m1 == IF cur_y < 0
                            THEN add_cube(m, p, cur_x, 0, 0, tw, tl + cur_y, th, TRUE, 0)
                            ELSE add_cube(m, p, cur_x, cur_y, 0, tw, tl, th, TRUE, 0)
                      m2 == add_cube(m1, p, cur_x + tw + sp, cur_y + s_tl(p) + sp, 0,
                                     s_tw(p), s_tl(p), th, TRUE, 0)
                  IN  IF m.loc.step_back
                      THEN [m2 EXCEPT !.loc.cur_x = @ + tw + sp,
                                      !.loc.cur_y = @ - (s_tl(p) + sp),
                                      !.loc.step_back = ~@]
                      ELSE [m2 EXCEPT !.loc.cur_x = @ + tw + s_tw(p) + 2 * sp,
                                      !.loc.cur_y = @ + s_tl(p) + sp,
                                      !.loc.step_back = ~@]
             ELSE IF cur_x = 0
                  THEN LET m1 == add_cube(m, p, cur_x, cur_y, 0, s_tw(p), tl, th, TRUE, 0)
                           m2 == add_cube(m1, p, cur_x + s_tw(p) + sp,
                                          cur_y + s_tl(p) + sp, 0, s_tw(p), s_tl(p),
                                          th, TRUE, 0)
                           m3 == add_cube(m2, p, cur_x, cur_y - sp - s_tl(p), 0,
                                          s_tw(p), s_tl(p), th, TRUE, 0)
                       IN  [m3 EXCEPT !.loc.cur_x = @ + (2 * s_tw(p)) + tw + (3 * sp)]
                  ELSE LET m1 == add_cube(m, p, cur_x, cur_y, 0, tw, tl, th, TRUE, 0)
                           m2 == add_cube(m1, p, cur_x + tw + sp, cur_y + s_tl(p) + sp,
                                          0, s_tw(p), s_tl(p), th, TRUE, 0)
                       IN  [m2 EXCEPT !.loc.cur_x = @ + (2 * tw) + (3 * sp) + s_tw(p)]
        ELSE LET y == IF m.loc.row = 0 \/ m.loc.row = 2
                      THEN m.loc.pre_y + tl + sp
                      ELSE m.loc.pre_y + s_tl(p) + sp
             IN  [m EXCEPT !.pc = "tile_large_small_y",
                           !.loc.cur_y = y, !.loc.pre_y = y,
                           !.loc.row = (@ + 1) % 3]

---------------------------------------------------------------------------
(* wood_parquet *)

\* the length of a board of a group: bl
group_span(p) ==
    (p.board_width * p.boards_in_group) + (p.spacing * (p.boards_in_group - 1))

\* the faces wood_parquet appends for one board
parquet_fs(q) ==
    << <<q, q + 3, q + 2, q + 1>>, <<q + 4, q + 5, q + 6, q + 7>>,
       <<q, q + 4, q + 7, q + 3>>, <<q + 3, q + 7, q + 6, q + 2>>,
       <<q + 1, q + 2, q + 6, q + 5>>, <<q, q + 1, q + 5, q + 4>> >>

\* the prologue of wood_parquet: cur_x = 0.0, start_orient_length = True
wood_parquet(m) ==
    [m EXCEPT !.pc = "wood_parquet_x",
              !.loc = [NoLoc EXCEPT !.start_orient_length = TRUE],
              !.calls = Append(@, "wood_parquet")]

\* one pass of `while cur_x < self.width` up to the inner loop
wood_parquet_x(m, p) ==
    IF m.loc.cur_x < p.width
    THEN [m EXCEPT !.pc = "wood_parquet_y", !.loc.cur_y = 0,
                   !.loc.orient_length = m.loc.start_orient_length]
    ELSE return(m)

\* wood_parquet_y without `start_orient_length = not start_orient_length`
\* (a faulty variant of wood_parquet_y)
wood_parquet_y_same(m, p) ==
    IF m.loc.cur_y < p.length
    THEN [m EXCEPT !.pc = "wood_parquet_i",
                   !.loc.bl2 = group_span(p), !.loc.bw2 = p.board_width,
                   !.loc.start_x = IF m.loc.orient_length THEN m.loc.cur_x ELSE @,
                   !.loc.i = 0]
    ELSE [m EXCEPT !.pc = "wood_parquet_x",
                   !.loc.cur_x = @ + group_span(p) + p.spacing]

\* one pass of `while cur_y < self.length` up to the for loop of the group,
\* or its exit and the end of the outer pass
wood_parquet_y(m, p) ==
    IF m.loc.cur_y < p.length
    THEN [m EXCEPT !.pc = "wood_parquet_i",
                   !.loc.bl2 = group_span(p), !.loc.bw2 = p.board_width,
                   !.loc.start_x = IF m.loc.orient_length THEN m.loc.cur_x ELSE @,
                   !.loc.i = 0]
    ELSE [m EXCEPT !.pc = "wood_parquet_x",
                   !.loc.start_orient_length = ~@,
                   !.loc.cur_x = @ + group_span(p) + p.spacing]

\* one board of a length-oriented group
parquet_board_length(m, p) ==
    LET cur_x == m.loc.cur_x
        cur_y == m.loc.cur_y
        z   == p.thickness
        bw2 == IF cur_x < p.width /\ p.width < cur_x + p.board_width
               THEN p.width - cur_x ELSE m.loc.bw2
        bl2 == IF cur_y < p.length /\ p.length < cur_y + group_span(p)
               THEN p.length - cur_y ELSE m.loc.bl2
    IN  IF cur_x < p.width /\ cur_y < p.length
        THEN [m EXCEPT
                !.vs = @ \o << <<cur_x, cur_y, 0>>, <<cur_x, cur_y, z>>,
                               <<cur_x + bw2, cur_y, z>>, <<cur_x + bw2, cur_y, 0>>,
                               <<cur_x, cur_y + bl2, 0>>, <<cur_x, cur_y + bl2, z>>,
                               <<cur_x + bw2, cur_y + bl2, z>>,
                               <<cur_x + bw2, cur_y + bl2, 0>> >>,
                !.fs = @ \o parquet_fs(Len(m.vs)),
                !.ms = @ \o [k \in 1..6 |-> 0],
                !.loc.bw2 = bw2, !.loc.bl2 = bl2,
                !.loc.cur_x = @ + bw2 + p.spacing]
        ELSE m

\* one board of a width-oriented group
parquet_board_width(m, p) ==
    LET cur_x == m.loc.cur_x
        cur_y == m.loc.cur_y
        z   == p.thickness
        bl2 == IF cur_x < p.width /\ p.width < cur_x + group_span(p)
               THEN p.width - cur_x ELSE m.loc.bl2
        bw2 == IF cur_y < p.length /\ p.length < cur_y + p.board_width
               THEN p.length - cur_y ELSE m.loc.bw2
    IN  IF cur_x < p.width /\ cur_y < p.length
        THEN [m EXCEPT
                !.vs = @ \o << <<cur_x, cur_y + bw2, 0>>, <<cur_x, cur_y + bw2, z>>,
                               <<cur_x, cur_y, z>>, <<cur_x, cur_y, 0>>,
                               <<cur_x + bl2, cur_y + bw2, 0>>,
                               <<cur_x + bl2, cur_y + bw2, z>>,
                               <<cur_x + bl2, cur_y, z>>, <<cur_x + bl2, cur_y, 0>> >>,
                !.fs = @ \o parquet_fs(Len(m.vs)),
                !.ms = @ \o [k \in 1..6 |-> 0],
                !.loc.bw2 = bw2, !.loc.bl2 = bl2,
                !.loc.cur_y = @ + bw2 + p.spacing]
        ELSE m

\* one pass of `for i in range(self.boards_in_group)`, or the end of the
\* pass of the inner while loop
wood_parquet_i(m, p) ==
    IF m.loc.i < p.boards_in_group
    THEN LET m1 == IF m.loc.orient_length
                   THEN parquet_board_length(m, p)
                   ELSE parquet_board_width(m, p)
         IN  [m1 EXCEPT !.loc.i = @ + 1]
    ELSE IF m.loc.orient_length
         THEN [m EXCEPT !.pc = "wood_parquet_y",
                        !.loc.cur_x = m.loc.start_x,
                        !.loc.cur_y = @ + m.loc.bl2 + p.spacing,
                        !.loc.orient_length = ~@]
         ELSE [m EXCEPT !.pc = "wood_parquet_y",
                        !.loc.orient_length = ~@]

---------------------------------------------------------------------------
(* update_data *)

\* update_data without `self.vs, self.fs, self.ms = [], [], []`
keep_buffers(m) == m

\* self.vs, self.fs, self.ms = [], [], []
reset_buffers(m) == [m EXCEPT !.vs = <<>>, !.fs = <<>>, !.ms = <<>>]

\* a run starts: nothing called yet
enter(m) == [m EXCEPT !.calls = <<>>]

\* update_data up to the first loop of the layout function it calls
update_data(m, p) ==
    LET m0 == reset_buffers(enter(m))
    IN  IF p.floor_material = "wood"
        THEN IF p.wood_styles = "regular" THEN wood_regular(m0)
             ELSE IF p.wood_styles = "parquet" THEN wood_parquet(m0)
             ELSE return(m0)
        ELSE IF p.floor_material = "tile"
        THEN LET m1 == tile_grout(m0, p)
             IN  IF p.tile_styles = "regular" THEN tile_regular(m1)
                 ELSE IF p.tile_styles = "large_small" THEN tile_large_small(m1)
                 ELSE return(m1)
        ELSE return(m0)

\* the step update_data takes at m.pc, every uniform() returning r
step(m, p, r) ==
    CASE m.pc = "wood_regular_x" -> wood_regular_x(m, p, r)
      [] m.pc = "wood_regular_y" -> wood_regular_y(m, p, r, r, 0)
      [] m.pc = "wood_parquet_x" -> wood_parquet_x(m, p)
      [] m.pc = "wood_parquet_y" -> wood_parquet_y(m, p)
      [] m.pc = "wood_parquet_i" -> wood_parquet_i(m, p)
      [] m.pc = "tile_regular_y" -> tile_regular_y(m, p)
      [] m.pc = "tile_regular_x" -> tile_regular_x(m, p, r)
      [] m.pc = "tile_large_small_y" -> tile_large_small_y(m, p)
      [] m.pc = "tile_large_small_x" -> tile_large_small_x(m, p)
      [] OTHER -> m

RECURSIVE run_to_end(_, _, _)
\* update_data from m to its return
run_to_end(m, p, r) ==
    IF m.pc = "done" THEN m ELSE run_to_end(step(m, p, r), p, r)

\* a floor object that has not run yet
Fresh ==
    [vs |-> <<>>, fs |-> <<>>, ms |-> <<>>, pc |-> "idle", loc |-> NoLoc,
     calls |-> <<>>]

\* one whole update_data on a fresh floor object
fresh_run(p, r) == run_to_end(update_data(Fresh, p), p, r)

---------------------------------------------------------------------------
(* The parameter sets of the model. *)

\* footprint sizes, board and tile sizes, spacings, percentages
Dims == {k * Unit : k \in 1..MaxDim}
UnitDims == {k * Unit : k \in 1..MaxUnitDim}
SmallDims == {Unit, 2 * Unit}
Gaps == {0, Gap}
Percents == {50, 100}

\* the property values after construction, in the model's units
Base ==
    [floor_material |-> "wood", wood_styles |-> "regular",
     tile_styles |-> "regular",
     width |-> Unit, length |-> Unit, spacing |-> Gap,
     thickness |-> Unit, vary_thickness |-> FALSE, thickness_variance |-> 50,
     board_width |-> Unit, vary_width |-> FALSE, width_variance |-> 50,
     width_spacing |-> Gap,
     board_length |-> Unit, vary_length |-> FALSE, length_variance |-> 50,
     max_boards |-> 2, length_spacing |-> Gap,
     boards_in_group |-> 2,
     tile_width |-> Unit, tile_length |-> Unit, mortar_depth |-> Unit \div 4,
     offset_tiles |-> FALSE, random_offset |-> FALSE, offset |-> 50,
     offset_variance |-> 50]

\* the values the model gives each property
Values ==
    [floor_material |-> {"wood", "tile"},
     wood_styles |-> {"regular", "parquet", "herring_parquet", "herring"},
     tile_styles |-> {"regular", "large_small", "large_many_small", "hexagon"},
     width |-> Dims, length |-> Dims, spacing |-> Gaps \cup {BigGap},
     thickness |-> {Unit}, vary_thickness |-> BOOLEAN,
     thickness_variance |-> Percents,
     board_width |-> UnitDims \cup {Wide}, vary_width |-> BOOLEAN,
     width_variance |-> Percents, width_spacing |-> Gaps,
     board_length |-> UnitDims, vary_length |-> BOOLEAN,
     length_variance |-> Percents, max_boards |-> 1..MaxMaxBoards,
     length_spacing |-> Gaps, boards_in_group |-> 1..MaxBoardsInGroup,
     tile_width |-> UnitDims, tile_length |-> UnitDims,
     mortar_depth |-> {0, Unit \div 4, Unit},
     offset_tiles |-> BOOLEAN, random_offset |-> BOOLEAN, offset |-> Percents,
     offset_variance |-> Percents]

\* p has the value of Base for every property but those of `free`
Rest(p, free) == \A f \in (DOMAIN Base) \ free : p[f] = Base[f]

NoVary(p) == ~p.vary_width /\ ~p.vary_length /\ ~p.vary_thickness

\* wood regular without variance
WoodRegularParams(p) ==
    /\ Rest(p, {"width", "length", "board_width", "board_length",
                "width_spacing", "length_spacing", "max_boards"})
    /\ p.board_width \in UnitDims

\* wood regular with vary_width alone: a width variance of 100 % goes with
\* the wide board, whose narrowest column is half a unit
VaryWidthParams(p) ==
    /\ Rest(p, {"vary_width", "width", "board_width", "width_variance",
                "width_spacing"})
    /\ p.vary_width
    /\ p.width \in SmallDims
    /\ p.board_width \in {Unit, Wide}
    /\ p.width_variance = 100 => p.board_width = Wide

\* wood regular with vary_length alone
VaryLengthParams(p) ==
    /\ Rest(p, {"vary_length", "length", "length_variance", "length_spacing",
                "max_boards"})
    /\ p.vary_length
    /\ p.length \in SmallDims

\* wood regular with vary_thickness alone
VaryThicknessParams(p) ==
    /\ Rest(p, {"vary_thickness", "length", "thickness_variance"})
    /\ p.vary_thickness
    /\ p.length \in SmallDims

\* wood regular with two or three vary_* flags, on the unit footprint
VarySeveralParams(p) ==
    /\ Rest(p, {"vary_width", "vary_length", "vary_thickness"})
    /\ \/ p.vary_width /\ p.vary_length
       \/ p.vary_width /\ p.vary_thickness
       \/ p.vary_length /\ p.vary_thickness

\* wood parquet
WoodParquetParams(p) ==
    /\ Rest(p, {"wood_styles", "width", "length", "board_width",
                "boards_in_group", "spacing"})
    /\ p.wood_styles = "parquet"
    /\ p.board_width \in UnitDims
    /\ p.spacing \in Gaps

\* the wood styles update_data has no branch for
WoodOtherParams(p) ==
    /\ Rest(p, {"wood_styles", "width"})
    /\ p.wood_styles \in {"herring_parquet", "herring"}

\* tile regular: rows not offset, or offset by a fixed percentage
TileRegularParams(p) ==
    /\ Rest(p, {"floor_material", "width", "length", "tile_width",
                "tile_length", "spacing", "mortar_depth", "offset_tiles",
                "offset"})
    /\ p.floor_material = "tile"
    /\ p.spacing \in Gaps
    /\ p.mortar_depth \in {0, Unit \div 4, Unit}
    /\ p.offset_tiles => p.mortar_depth = Base.mortar_depth
    /\ ~p.offset_tiles => p.offset = Base.offset

\* tile regular with random_offset
TileRandomParams(p) ==
    /\ Rest(p, {"floor_material", "width", "length", "tile_width",
                "tile_length", "spacing", "offset_tiles", "random_offset",
                "offset_variance"})
    /\ p.floor_material = "tile"
    /\ p.random_offset
    /\ p.spacing \in Gaps
    /\ {p.width, p.length, p.tile_width, p.tile_length} \subseteq SmallDims

\* tile large + small
TileLargeSmallParams(p) ==
    /\ Rest(p, {"floor_material", "tile_styles", "width", "length",
                "tile_width", "tile_length", "spacing"})
    /\ p.floor_material = "tile"
    /\ p.tile_styles = "large_small"

\* the tile styles update_data has no branch for
TileOtherParams(p) ==
    /\ Rest(p, {"floor_material", "tile_styles", "width", "mortar_depth"})
    /\ p.floor_material = "tile"
    /\ p.tile_styles \in {"large_many_small", "hexagon"}

\* the parameter sets of the model
InModel(p) ==
    \/ WoodRegularParams(p)
    \/ VaryWidthParams(p)
    \/ VaryLengthParams(p)
    \/ VaryThicknessParams(p)
    \/ VarySeveralParams(p)
    \/ WoodParquetParams(p)
    \/ WoodOtherParams(p)
    \/ TileRegularParams(p)
    \/ TileRandomParams(p)
    \/ TileLargeSmallParams(p)
    \/ TileOtherParams(p)

---------------------------------------------------------------------------
(* The state machine. *)

\* the floor object as the layout functions see it
Machine == [vs |-> vs, fs |-> fs, ms |-> ms, pc |-> pc, loc |-> loc,
            calls |-> calls]

\* the floor object becomes m
Becomes(m) ==
    /\ vs' = m.vs
    /\ fs' = m.fs
    /\ ms' = m.ms
    /\ pc' = m.pc
    /\ loc' = m.loc
    /\ calls' = m.calls

\* the outcomes of a uniform() call that is made only when `made` holds
Outcomes(made) == IF made THEN Draws ELSE {"min"}

\* after construction: the class attributes vs, fs, ms are empty lists and
\* the properties have their defaults
Init ==
    /\ params = Base
    /\ vs = <<>>
    /\ fs = <<>>
    /\ ms = <<>>
    /\ pc = "idle"
    /\ loc = NoLoc
    /\ calls = <<>>
    /\ allmin = TRUE
    /\ prev = <<>>

\* a property is set to v (the value it has, or another): its update
\* callback calls update(), and update_data() starts.  prev keeps the buffers
\* of the run before when the properties did not change and no vary_* flag is
\* set
Update(f, v) ==
    /\ pc \in {"idle", "done"}
    /\ LET p == [params EXCEPT ![f] = v]
       IN  /\ InModel(p)
           /\ params' = p
           /\ Becomes(update_data(Machine, p))
           /\ prev' = IF pc = "done" /\ p = params /\ NoVary(p)
                      THEN << <<vs, fs, ms>> >> ELSE <<>>
    /\ allmin' = TRUE

WoodRegularX ==
    /\ pc = "wood_regular_x"
    /\ \E r \in Outcomes(loc.cur_x < params.width /\ params.vary_width) :
          /\ Becomes(wood_regular_x(Machine, params, r))
          /\ allmin' = (allmin /\ r = "min")
    /\ UNCHANGED <<params, prev>>

WoodRegularY ==
    /\ pc = "wood_regular_y"
    /\ \E rz \in Outcomes(loc.cur_y < params.length /\ params.vary_thickness),
          rl \in Outcomes(loc.cur_y < params.length /\ params.vary_length),
          e \in rounding(Machine, params) :
          /\ Becomes(wood_regular_y(Machine, params, rz, rl, e))
          /\ allmin' = (allmin /\ rz = "min" /\ rl = "min")
    /\ UNCHANGED <<params, prev>>

WoodParquetX ==
    /\ pc = "wood_parquet_x"
    /\ Becomes(wood_parquet_x(Machine, params))
    /\ UNCHANGED <<params, allmin, prev>>

WoodParquetY ==
    /\ pc = "wood_parquet_y"
    /\ Becomes(wood_parquet_y(Machine, params))
    /\ UNCHANGED <<params, allmin, prev>>

WoodParquetI ==
    /\ pc = "wood_parquet_i"
    /\ Becomes(wood_parquet_i(Machine, params))
    /\ UNCHANGED <<params, allmin, prev>>

TileRegularY ==
    /\ pc = "tile_regular_y"
    /\ Becomes(tile_regular_y(Machine, params))
    /\ UNCHANGED <<params, allmin, prev>>

TileRegularX ==
    /\ pc = "tile_regular_x"
    /\ \E r \in Outcomes(/\ loc.cur_x < params.width
                          /\ tile_regular_branch(Machine, params) = "random") :
          /\ Becomes(tile_regular_x(Machine, params, r))
          /\ allmin' = (allmin /\ r = "min")
    /\ UNCHANGED <<params, prev>>

TileLargeSmallY ==
    /\ pc = "tile_large_small_y"
    /\ Becomes(tile_large_small_y(Machine, params))
    /\ UNCHANGED <<params, allmin, prev>>

TileLargeSmallX ==
    /\ pc = "tile_large_small_x"
    /\ Becomes(tile_large_small_x(Machine, params))
    /\ UNCHANGED <<params, allmin, prev>>

Next ==
    \/ \E f \in DOMAIN Values : \E v \in Values[f] : Update(f, v)
    \/ WoodRegularX
    \/ WoodRegularY
    \/ WoodParquetX
    \/ WoodParquetY
    \/ WoodParquetI
    \/ TileRegularY
    \/ TileRegularX
    \/ TileLargeSmallY
    \/ TileLargeSmallX

Spec == Init /\ [][Next]_vars

\* a step of the run in progress
RunStep ==
    \/ WoodRegularX
    \/ WoodRegularY
    \/ WoodParquetX
    \/ WoodParquetY
    \/ WoodParquetI
    \/ TileRegularY
    \/ TileRegularX
    \/ TileLargeSmallY
    \/ TileLargeSmallX

\* update_data() is synchronous Python: a run that has started keeps taking
\* steps until it returns
FairSpec == Spec /\ WF_vars(RunStep)

---------------------------------------------------------------------------
(* Reading the buffers: box k is vertices 8k-7 .. 8k and faces 6k-5 .. 6k. *)

NBoxes == Len(vs) \div 8
Min(S) == CHOOSE x \in S : \A y \in S : x <= y
Max(S) == CHOOSE x \in S : \A y \in S : x >= y
Coords(k, c) == {vs[8 * (k - 1) + j][c] : j \in 1..8}
X0(k) == Min(Coords(k, 1))
X1(k) == Max(Coords(k, 1))
Y0(k) == Min(Coords(k, 2))
Y1(k) == Max(Coords(k, 2))
IsPrefix(s, t) == Len(s) <= Len(t) /\ SubSeq(t, 1, Len(s)) = s
Running == pc \notin {"idle", "done"}
IsWood(st) == params.floor_material = "wood" /\ params.wood_styles = st
IsTile(st) == params.floor_material = "tile" /\ params.tile_styles = st

---------------------------------------------------------------------------
(* C1 *)

BuffersWellFormed ==
    /\ Len(ms) = Len(fs)
    /\ Len(vs) % 8 = 0
    /\ Len(fs) = 6 * (Len(vs) \div 8)
    /\ \A i \in 1..Len(fs) : \A j \in 1..4 :
          /\ fs[i][j] < Len(vs)
          /\ fs[i][j] \in (8 * ((i - 1) \div 6))..(8 * ((i - 1) \div 6) + 7)

AppendOnly ==
    Running => IsPrefix(vs, vs') /\ IsPrefix(fs, fs') /\ IsPrefix(ms, ms')

\* C1: in every state of every run, for every material family and style,
\* the buffers are well-formed: ms and fs have the same length, vs holds 8
\* vertices and fs 6 faces per box, every index of a face is < len(vs) and is
\* one of the 8 vertices of the face's own box; and a step of a run only
\* appends to the buffers, it changes no entry they hold.
C1_BuffersWellFormed == [](BuffersWellFormed) /\ [][AppendOnly]_vars

\* a parquet run is under way and has emitted three boards with its own
\* vertex and face code
C1_Witness ==
    /\ pc = "wood_parquet_i"
    /\ NBoxes >= 3
    /\ IsWood("parquet")

---------------------------------------------------------------------------
(* C2 *)

\* C2: in wood regular and tile regular (grout slab included), whatever
\* uniform() returns, every vertex has 0 <= x <= width and 0 <= y <= length,
\* and every box starts inside the footprint (x < width, y < length).
C2_InsideFootprint ==
    (pc # "idle" /\ (IsWood("regular") \/ IsTile("regular"))) =>
        /\ \A i \in 1..Len(vs) :
              /\ 0 <= vs[i][1] /\ vs[i][1] <= params.width
              /\ 0 <= vs[i][2] /\ vs[i][2] <= params.length
        /\ \A k \in 1..NBoxes : X0(k) < params.width /\ Y0(k) < params.length

\* a tile regular run with random offset ended whose first tile of a row,
\* as drawn, would cross the right edge: it ends exactly at width
C2_Witness ==
    /\ pc = "done"
    /\ IsTile("regular")
    /\ params.offset_tiles /\ params.random_offset
    /\ params.tile_length > params.width
    /\ ~allmin
    /\ \E k \in 2..NBoxes : X0(k) = 0 /\ X1(k) = params.width

---------------------------------------------------------------------------
(* C3 *)

RECURSIVE AreaFrom(_)
\* the sum of the footprint areas of boxes k .. NBoxes
AreaFrom(k) ==
    IF k > NBoxes THEN 0
    ELSE (X1(k) - X0(k)) * (Y1(k) - Y0(k)) + AreaFrom(k + 1)

\* box k covers the unit cell whose lower left corner is (i, j) units
Covers(k, i, j) ==
    /\ X0(k) <= i * Unit /\ (i + 1) * Unit <= X1(k)
    /\ Y0(k) <= j * Unit /\ (j + 1) * Unit <= Y1(k)

Overlap(k, n) ==
    /\ X0(k) < X1(n) /\ X0(n) < X1(k)
    /\ Y0(k) < Y1(n) /\ Y0(n) < Y1(k)

\* wood regular, no variance, no spacing
PlainWood ==
    /\ IsWood("regular")
    /\ NoVary(params)
    /\ params.width_spacing = 0 /\ params.length_spacing = 0

\* C3: a finished wood regular run without variance and with both spacings 0
\* tiles the footprint: the areas sum to width * length, no two boxes
\* overlap, and every unit cell of the footprint lies in a box (all
\* coordinates are whole units here).
C3_ExactTiling ==
    (pc = "done" /\ PlainWood) =>
        /\ AreaFrom(1) = params.width * params.length
        /\ \A k \in 1..NBoxes : \A n \in 1..NBoxes : k # n => ~Overlap(k, n)
        /\ \A i \in 0..((params.width \div Unit) - 1) :
           \A j \in 0..((params.length \div Unit) - 1) :
              \E k \in 1..NBoxes : Covers(k, i, j)

\* such a run ended on a footprint the boards divide in neither direction
C3_Witness ==
    /\ pc = "done" /\ PlainWood
    /\ params.width % params.board_width # 0
    /\ params.length % params.board_length # 0
    /\ NBoxes >= 4

---------------------------------------------------------------------------
(* C4 *)

\* this run and the run before had the same parameters and no vary_* flag
Rerun == pc = "done" /\ prev # <<>> /\ NoVary(params)

RandomTiles ==
    IsTile("regular") /\ params.offset_tiles /\ params.random_offset

\* C4 as claimed: a run whose parameters are those of the run before, with
\* all vary_* flags false, ends with the buffers the run before ended with,
\* for every family, style and value of the other parameters.
C4_Deterministic == Rerun => <<vs, fs, ms>> = prev[1]

\* C4 as amended: the same, except in tile regular with offset_tiles and
\* random_offset both enabled, where the first tile of a row is drawn with
\* uniform().
C4_DeterministicUnlessRandomOffset ==
    (Rerun /\ ~RandomTiles) => <<vs, fs, ms>> = prev[1]

\* a second run ended with the parameters of the first, in tile regular with
\* random_offset set and offset_tiles clear, after a different earlier run
C4_Witness ==
    /\ Rerun
    /\ IsTile("regular") /\ params.random_offset /\ ~params.offset_tiles
    /\ NBoxes >= 3

---------------------------------------------------------------------------
(* C5 *)

\* the corners of the slab tile_grout emits
SlabCorners ==
    {<<x, y, z>> : x \in {0, params.width}, y \in {0, params.length},
                   z \in {0, params.thickness - params.mortar_depth}}

\* C5: in every run of the tile family, whatever the tile style, the first
\* 8 vertices are the corners of one slab over [0,width] x [0,length] from
\* z = 0 to z = thickness - mortar_depth, the first 6 faces are its faces
\* and carry material id 1, and no later face carries material id 1.
C5_GroutFirst ==
    (pc # "idle" /\ params.floor_material = "tile") =>
        /\ Len(vs) >= 8 /\ Len(fs) >= 6 /\ Len(ms) >= 6
        /\ {vs[i] : i \in 1..8} = SlabCorners
        /\ vs[1] = <<0, 0, 0>>
        /\ vs[8] = <<params.width, params.length,
                     params.thickness - params.mortar_depth>>
        /\ \A i \in 1..6 : \A j \in 1..4 : fs[i][j] \in 0..7
        /\ \A i \in 1..Len(ms) : (ms[i] = 1) <=> (i <= 6)

\* a large + small run ended with tiles above the slab
C5_Witness ==
    /\ pc = "done"
    /\ IsTile("large_small")
    /\ NBoxes >= 4

---------------------------------------------------------------------------
(* C6 *)

\* every pass of every sweep loop moves the loop's cursor forward
StrictSweeps ==
    /\ (pc = "wood_regular_y" /\ pc' = "wood_regular_x") =>
          loc'.cur_x > loc.cur_x
    /\ (pc = "wood_regular_y" /\ pc' = "wood_regular_y") =>
          loc'.cur_y > loc.cur_y
    /\ (pc = "tile_regular_x" /\ pc' = "tile_regular_x") =>
          loc'.cur_x > loc.cur_x
    /\ (pc = "tile_regular_x" /\ pc' = "tile_regular_y") =>
          loc'.cur_y > loc.cur_y
    /\ (pc = "tile_large_small_x" /\ pc' = "tile_large_small_x") =>
          loc'.cur_x > loc.cur_x
    /\ (pc = "tile_large_small_x" /\ pc' = "tile_large_small_y") =>
          loc'.pre_y > loc.pre_y /\ loc'.cur_y = loc'.pre_y
    /\ (pc = "wood_parquet_y" /\ pc' = "wood_parquet_x") =>
          loc'.cur_x > loc.cur_x
    /\ (pc = "wood_parquet_i" /\ pc' = "wood_parquet_i") =>
          /\ loc'.cur_y >= loc.cur_y
          /\ (~loc.orient_length /\ loc.i = 0) => loc'.cur_y > loc.cur_y
    /\ (pc = "wood_parquet_i" /\ pc' = "wood_parquet_y") =>
          /\ loc'.cur_y >= loc.cur_y
          /\ loc.orient_length => loc'.cur_y > loc.cur_y

\* C6: every run terminates, and in wood_regular, wood_parquet, tile_regular
\* and tile_large_small every pass of a sweep loop strictly increases the
\* loop's cursor: cur_x for a sweep along X, the y at which the row starts
\* for a sweep along Y (in a parquet column the group's y: the first board of
\* a width-oriented group, or the end of a length-oriented group, moves it
\* forward, and no board moves it back).
C6_SweepsAdvance == [][StrictSweeps]_vars /\ (Running ~> (pc = "done"))

\* a large + small run is in its third row (row == 2), having moved the row
\* start forward twice through pre_y
C6_Witness ==
    /\ pc = "tile_large_small_x"
    /\ loc.row = 2
    /\ loc.cur_x > 0

---------------------------------------------------------------------------
(* C7 *)

Width(k) == X1(k) - X0(k)

\* wood regular, vary_width at 100 %, no width spacing, uniform() at its
\* minimum so far
MinimalStride ==
    /\ pc # "idle"
    /\ IsWood("regular")
    /\ params.vary_width /\ params.width_variance = 100
    /\ params.width_spacing = 0
    /\ allmin

\* C7 as claimed: such a run is rejected (DegenerateStride): when it is over
\* the buffers hold no geometry.
C7_Rejected == (pc = "done" /\ MinimalStride) => Len(vs) = 0

\* C7 as amended: such a run is not rejected.  The minimum of the range is
\* board_width / 100 > 0: every board emitted is that wide, or ends at the
\* right edge with a positive width, and the run returns with geometry.
C7_MinimalStrideAccepted ==
    MinimalStride =>
        /\ \A k \in 1..NBoxes :
              /\ Width(k) > 0
              /\ Width(k) = params.board_width \div 100 \/ X1(k) = params.width
        /\ pc = "done" => NBoxes >= 1 /\ X1(NBoxes) = params.width

\* such a run returned: a footprint two units wide holds four columns, each
\* a hundredth of the board wide (half a unit)
C7_Witness ==
    /\ pc = "done" /\ MinimalStride
    /\ params.width = 2 * Unit
    /\ NBoxes = 4

---------------------------------------------------------------------------
(* C8 *)

\* C8: a finished wood regular run without variance or spacing, on a
\* footprint that is a whole number of boards wide and long, holds exactly
\* (width / board_width) * (length / board_length) boxes, one on each cell of
\* the grid of boards, 8 vertices and 6 faces a box, all of material id 0,
\* whatever max_boards is.
C8_OneBoxPerCell ==
    (/\ pc = "done" /\ PlainWood
     /\ params.width % params.board_width = 0
     /\ params.length % params.board_length = 0) =>
        LET cols == params.width \div params.board_width
            rows == params.length \div params.board_length
        IN  /\ NBoxes = cols * rows
            /\ Len(vs) = 8 * cols * rows
            /\ Len(fs) = 6 * cols * rows
            /\ \A i \in 1..Len(ms) : ms[i] = 0
            /\ \A c \in 0..(cols - 1) : \A r \in 0..(rows - 1) :
                  \E k \in 1..NBoxes :
                     /\ X0(k) = c * params.board_width
                     /\ X1(k) = (c + 1) * params.board_width
                     /\ Y0(k) = r * params.board_length
                     /\ Y1(k) = (r + 1) * params.board_length

\* such a run ended with more rows than max_boards
C8_Witness ==
    /\ pc = "done" /\ PlainWood
    /\ params.width % params.board_width = 0
    /\ params.length % params.board_length = 0
    /\ params.length \div params.board_length > params.max_boards
    /\ params.width \div params.board_width >= 2

---------------------------------------------------------------------------
(* C9 *)

\* C9: a finished run has called exactly one wood layout function when the
\* family is wood, and tile_grout then exactly one tile layout function when
\* the family is tile, and holds at least one board or tile, for every value
\* of wood_styles and tile_styles.
C9_EveryStyleLaysOut ==
    pc = "done" =>
        /\ params.floor_material = "wood" =>
              /\ Len(calls) = 1
              /\ calls[1] \in {"wood_regular", "wood_parquet"}
              /\ NBoxes >= 1
        /\ params.floor_material = "tile" =>
              /\ Len(calls) = 2
              /\ calls[1] = "tile_grout"
              /\ calls[2] \in {"tile_regular", "tile_large_small"}
              /\ NBoxes >= 2

---------------------------------------------------------------------------
(* C10 *)

\* C10: when a run is over, whatever runs came before on the same floor
\* object, the buffers hold the geometry of this run alone: with no vary_*
\* flag and no random offset they are the buffers one run with the same
\* parameters leaves on a floor object that never ran.
C10_OnlyLastRun ==
    (pc = "done" /\ NoVary(params) /\ ~params.random_offset) =>
        LET m == fresh_run(params, "mid")
        IN  vs = m.vs /\ fs = m.fs /\ ms = m.ms

\* a large + small run ended on a footprint two units wide, run twice in a
\* row: every update changes one property, so the floor object went through
\* a wood run, a tile regular run and runs on a narrower footprint before
C10_Witness ==
    /\ pc = "done"
    /\ IsTile("large_small")
    /\ params.width = 2 * Unit
    /\ prev # <<>>
    /\ NBoxes >= 3

---------------------------------------------------------------------------
(* C11 *)

Z0(k) == Min(Coords(k, 3))
Z1(k) == Max(Coords(k, 3))

\* box k as add_cube was asked for it: w, l and t are the steps from its first
\* vertex (x, y, z) to its third (x + w, y, z), fifth (x, y + l, z) and second
\* (x, y, z + t)
AskedW(k) == vs[8 * (k - 1) + 3][1] - vs[8 * (k - 1) + 1][1]
AskedL(k) == vs[8 * (k - 1) + 5][2] - vs[8 * (k - 1) + 1][2]
AskedT(k) == vs[8 * (k - 1) + 2][3] - vs[8 * (k - 1) + 1][3]

\* C11: in every state of every run, in every style and for every outcome of
\* uniform(), every box in the buffers (the grout slab and the small tiles of
\* large + small included) has a width, a length and a thickness > 0: its
\* extents are positive, and a box add_cube emitted was asked for with
\* positive w, l and t.
C11_NoDegenerateBox ==
    \A k \in 1..NBoxes :
        /\ X1(k) > X0(k) /\ Y1(k) > Y0(k) /\ Z1(k) > Z0(k)
        /\ ~IsWood("parquet") => AskedW(k) > 0 /\ AskedL(k) > 0 /\ AskedT(k) > 0

---------------------------------------------------------------------------
(* C12 *)

Length(k) == Y1(k) - Y0(k)

\* a parquet board is length-oriented when its first vertex is its corner of
\* least y (a width-oriented board starts at (cur_x, cur_y + bw2, 0))
LengthOriented(k) == vs[8 * (k - 1) + 1][2] = Y0(k)

\* box k has the size its style gives a tile or board away from the edges:
\* in large + small a large tile (its bottom cut at y = 0 leaves s_tl of it),
\* the half-wide tile that starts the third row, or a small tile; in parquet
\* a board of the group's span, along Y or along X
NominalSize(k) ==
    IF IsWood("parquet")
    THEN IF LengthOriented(k)
         THEN Width(k) = params.board_width /\ Length(k) = group_span(params)
         ELSE Width(k) = group_span(params) /\ Length(k) = params.board_width
    ELSE /\ AskedW(k) \in {params.tile_width, s_tw(params)}
         /\ AskedL(k) \in {params.tile_length, s_tl(params)}

\* box k is a tile of a large + small run or a board of a parquet run
Unclipped(k) ==
    \/ IsWood("parquet")
    \/ IsTile("large_small") /\ k >= 2

\* C12 as claimed: in large + small and in parquet nothing is shrunk at the
\* right and top edges: every tile or board in the buffers has its nominal
\* size, also when that takes it across x = width or y = length.
C12_NotClipped ==
    \A k \in 1..NBoxes : Unclipped(k) => NominalSize(k)

\* C12 as amended: in large + small and in parquet the right and top edges
\* clip as in the other styles: every tile or board starts before x = width
\* and y = length and ends at or before them, and one that has not its
\* nominal size ends at x = width or at y = length.
C12_Clipped ==
    \A k \in 1..NBoxes : Unclipped(k) =>
        /\ X0(k) < params.width /\ X1(k) <= params.width
        /\ Y0(k) < params.length /\ Y1(k) <= params.length
        /\ ~NominalSize(k) => X1(k) = params.width \/ Y1(k) = params.length

\* a large + small run ended with a large tile cut at the right edge and a
\* tile cut at the top edge
C12_Witness ==
    /\ pc = "done"
    /\ IsTile("large_small")
    /\ \E k \in 2..NBoxes :
          /\ X1(k) = params.width
          /\ 0 < AskedW(k) /\ AskedW(k) < params.tile_width
          /\ AskedW(k) # s_tw(params)
    /\ \E k \in 2..NBoxes :
          /\ Y1(k) = params.length
          /\ AskedL(k) \notin {params.tile_length, s_tl(params)}

---------------------------------------------------------------------------
(* C13 *)

\* the number of rows of tiles below the row tile_regular is laying
RowIndex ==
    Cardinality({Y0(k) : k \in {n \in 2..NBoxes : Y0(n) < loc.cur_y}})

\* the flag `off` is set in rows 1, 3, 5, ... and clear in rows 0, 2, 4, ...
FlagAlternates ==
    (pc = "tile_regular_x" /\ IsTile("regular")) =>
        (loc.off <=> RowIndex % 2 = 1)

\* this step emits the first tile of a row of tile regular
FirstTile ==
    /\ pc = "tile_regular_x" /\ pc' = "tile_regular_x"
    /\ loc.cur_x = 0
    /\ Len(vs') = Len(vs) + 8

\* the width of the box this step appends
NewWidth == vs'[Len(vs) + 3][1] - vs'[Len(vs) + 1][1]

\* the widths uniform() can give the first tile of a row, each shrunk to the
\* footprint when add_cube clips it
RandomWidths ==
    LET v == (params.tile_length * 49 * params.offset_variance) \div 10000
        half == params.tile_length \div 2
    IN  {Min({uniform(half - v, half + v, r), params.width}) : r \in Draws}

\* the first tile of a row as claimed
FirstTileClaimed ==
    FirstTile =>
        /\ ~loc.off => NewWidth = Min({params.tile_width, params.width})
        /\ (loc.off /\ params.offset_tiles /\ ~params.random_offset) =>
              NewWidth = (params.tile_width * params.offset) \div 100
        /\ (loc.off /\ params.offset_tiles /\ params.random_offset) =>
              NewWidth \in RandomWidths

\* C13 as claimed: the offset flag alternates row by row, the first row
\* unflagged; the first tile of an unflagged row has width tile_width (the
\* footprint's width if smaller) for every setting of offset_tiles and
\* random_offset; in a flagged row with offset_tiles its width is
\* tile_width * offset / 100 without random_offset, a random value with it.
C13_OffsetByFlag == [](FlagAlternates) /\ [][FirstTileClaimed]_vars

\* the first tile of a row as the code lays it
FirstTileLaid ==
    FirstTile =>
        IF params.width < params.tile_width
        THEN NewWidth = params.width
        ELSE IF params.offset_tiles /\ params.random_offset
        THEN NewWidth \in RandomWidths
        ELSE IF loc.off /\ params.offset_tiles
        THEN NewWidth = (params.tile_width * params.offset) \div 100
        ELSE NewWidth = params.tile_width

\* C13 as amended: the offset flag alternates row by row, the first row
\* unflagged.  On a footprint narrower than a tile the first tile of every
\* row is as wide as the footprint.  Otherwise, with offset_tiles and
\* random_offset both enabled the first tile of every row, flagged or not,
\* has a width drawn with uniform() (shrunk to the footprint when it is
\* wider); with offset_tiles alone the first tile of a flagged row has width
\* tile_width * offset / 100; every other first tile has width tile_width.
C13_RandomInEveryRow == [](FlagAlternates) /\ [][FirstTileLaid]_vars

\* tile regular with offset_tiles and random_offset is laying its second
\* row, the first flagged one, above a first row whose first tile was drawn
\* narrower than a tile
C13_Witness ==
    /\ pc = "tile_regular_x"
    /\ RandomTiles
    /\ loc.off /\ loc.cur_x > 0
    /\ RowIndex = 1
    /\ \E k \in 2..NBoxes :
          /\ X0(k) = 0 /\ Y0(k) = 0
          /\ Width(k) < params.tile_width /\ Width(k) < params.width

---------------------------------------------------------------------------
(* C14 *)

\* the boxes of the column of box k: a column of wood regular is the boxes
\* that start at one x
Column(k) == {n \in 1..NBoxes : X0(n) = X0(k)}

---------------------------------------------------------------------------
(* C15 *)

\* the pitch of the grid of groups, and the column and row of the grid in
\* which box k starts
Pitch == group_span(params) + params.spacing
GridCol(k) == X0(k) \div Pitch
GridRow(k) == Y0(k) \div Pitch

\* where the boards of a group start, measured from the group's origin
\* across the group
BoardStarts ==
    {b * (params.board_width + params.spacing) :
        b \in 0..(params.boards_in_group - 1)}

\* C15: in wood parquet every board belongs to a group of the grid of pitch
\* group_span + spacing: a board of the group in column i and row j starts on
\* the group's origin (i * pitch, j * pitch) along the group and at a board
\* start across it, and is length-oriented exactly when i + j is even, also
\* in the groups the footprint edge clips; and when the run is over every
\* cell of the grid that starts inside the footprint has a board at its
\* origin.  Groups adjacent in X or in Y so have opposite orientations.
C15_Checkerboard ==
    IsWood("parquet") =>
        /\ \A k \in 1..NBoxes :
              /\ LengthOriented(k) <=> (GridCol(k) + GridRow(k)) % 2 = 0
              /\ IF LengthOriented(k)
                 THEN /\ Y0(k) = GridRow(k) * Pitch
                      /\ X0(k) - GridCol(k) * Pitch \in BoardStarts
                 ELSE /\ X0(k) = GridCol(k) * Pitch
                      /\ Y0(k) - GridRow(k) * Pitch \in BoardStarts
        /\ pc = "done" =>
              \A i \in 0..((params.width - 1) \div Pitch) :
              \A j \in 0..((params.length - 1) \div Pitch) :
                 \E k \in 1..NBoxes : X0(k) = i * Pitch /\ Y0(k) = j * Pitch

\* a parquet run of groups of two boards ended with a group in the second
\* column and second row of the grid that the right and top edges clip
C15_Witness ==
    /\ pc = "done"
    /\ IsWood("parquet")
    /\ params.boards_in_group = 2
    /\ \E k \in 1..NBoxes :
          /\ GridCol(k) = 1 /\ GridRow(k) = 1
          /\ LengthOriented(k)
          /\ X1(k) = params.width /\ Y1(k) = params.length
          /\ ~NominalSize(k)

=============================================================================
